---- MODULE Spec2Model ----
(***************************************************************************)
(* Model of HtmlAlbum (htm_album.py, mk_thumbs.py).                        *)
(*                                                                         *)
(* Five specifications share this module:                                  *)
(*   SpecAlbum  - repeated calls of mk_htm_album against a file system;    *)
(*   SpecLayout - the same calls, drawn over record counts and columns;    *)
(*   SpecThumbs - one run of mk_thumbs, one crop_thumb call per step;      *)
(*   SpecCrop   - the crop box arithmetic of crop_thumb on one image;      *)
(*   SpecMain   - the main program, from select_by_exts to write_log.      *)
(*                                                                         *)
(* Path strings are sequences of one-character strings, so that endswith,  *)
(* removesuffix, splitext and str() are computed as Python computes them.  *)
(***************************************************************************)
EXTENDS Integers, Sequences, FiniteSets, TLC

VARIABLES
    files,          \* album spec: paths for which os.path.exists is True
    files0,         \* album spec: the value of files before the first call
    created,        \* album spec: files created by open(), in call order,
                    \*   each with the album_path argument of its call
    last,           \* album spec: arguments, outcome and text of the last call
    log_new,        \* album spec: lines show_log appended in the last call
    img_paths,      \* thumbs spec: argument of mk_thumbs
    thumb_paths,    \* thumbs spec: argument of mk_thumbs
    index,          \* thumbs spec: loop variable of mk_thumbs (0-based)
    tpc,            \* thumbs spec: "loop", "returned" or "raised"
    tuple_imgs_thumbs, \* thumbs spec: the two result lists
    outcome,        \* thumbs spec: per index, what happened inside crop_thumb
    crop_ret,       \* thumbs spec: per index, the value crop_thumb returned
    thumb_disk,     \* thumbs spec: thumbnail path -> source it was saved from
    cpc,            \* crop spec: "start" or "done"
    img_w, img_h,   \* crop spec: dimensions of the opened image
    size,           \* crop spec: <<target width, target height>>
    crop_tuple,     \* crop spec: <<left, top, right, bottom>>
    mpc,            \* main spec: the statement of the main program to run
    dir_state,      \* main spec: what os.listdir(img_dir) does
    mkdir_result,   \* main spec: "none", "same_dir", "made" or "failed"
    log_file        \* main spec: whether write_log wrote the log file

albumVars  == <<files, files0, created, last, log_new>>
thumbsVars == <<img_paths, thumb_paths, index, tpc, tuple_imgs_thumbs,
                outcome, crop_ret, thumb_disk>>
cropVars   == <<cpc, img_w, img_h, size, crop_tuple>>
mainVars   == <<mpc, dir_state, mkdir_result, log_file>>
vars == <<files, files0, created, last, log_new,
          img_paths, thumb_paths, index, tpc, tuple_imgs_thumbs,
          outcome, crop_ret, thumb_disk,
          cpc, img_w, img_h, size, crop_tuple,
          mpc, dir_state, mkdir_result, log_file>>

(***************************************************************************)
(* Bounds.                                                                 *)
(***************************************************************************)
MaxFiles == 3       \* calls of mk_htm_album stop once this many files exist
MaxRecs  == 10      \* small record counts 0..MaxRecs (the cap is added)
MaxCols  == 4       \* album_raw_max ranges over 1..MaxCols
MaxItems == 3       \* len(img_paths) and len(os.listdir()) are 0..MaxItems
MaxDim   == 3       \* image and target dimensions 1..MaxDim and BigDims

(***************************************************************************)
(* Python values: None and str.                                            *)
(***************************************************************************)
None == [isNone |-> TRUE, str |-> <<>>]

StrVal(s) == [isNone |-> FALSE, str |-> s]

\* bool(x) as the `if` statement applies it: None and "" are false.
Truthy(v) == (~v.isNone) /\ (v.str # <<>>)

(***************************************************************************)
(* String functions used by mk_htm_album.                                  *)
(***************************************************************************)
Digit(d) == CASE d = 0 -> "0" [] d = 1 -> "1" [] d = 2 -> "2" [] d = 3 -> "3"
              [] d = 4 -> "4" [] d = 5 -> "5" [] d = 6 -> "6" [] d = 7 -> "7"
              [] d = 8 -> "8" [] d = 9 -> "9"

Digits == {"0", "1", "2", "3", "4", "5", "6", "7", "8", "9"}

\* str(n) for n >= 0: the decimal digits, most significant first.
RECURSIVE PyStr(_)
PyStr(n) == IF n < 10 THEN <<Digit(n)>>
            ELSE PyStr(n \div 10) \o <<Digit(n % 10)>>

\* "(" + str(n) + ")"
RootTail(n) == <<"(">> \o PyStr(n) \o <<")">>

EndsWith(s, suf) ==
    /\ Len(suf) <= Len(s)
    /\ SubSeq(s, Len(s) - Len(suf) + 1, Len(s)) = suf

RemoveSuffix(s, suf) ==
    IF suf # <<>> /\ EndsWith(s, suf) THEN SubSeq(s, 1, Len(s) - Len(suf))
    ELSE s

\* str.rfind for a single character, 1-based; 0 when absent (Python: -1).
RFind(p, c) ==
    LET hits == {i \in 1..Len(p) : p[i] = c}
    IN  IF hits = {} THEN 0 ELSE CHOOSE i \in hits : \A j \in hits : j <= i

\* os.path.splitext (posixpath): the extension starts at the last dot of the
\* last path component, unless that component has only leading dots before it.
SplitExt(p) ==
    LET sepIndex == RFind(p, "/")
        dotIndex == RFind(p, ".")
    IN  IF /\ dotIndex > sepIndex
           /\ \E k \in (sepIndex + 1)..(dotIndex - 1) : p[k] # "."
        THEN <<SubSeq(p, 1, dotIndex - 1), SubSeq(p, dotIndex, Len(p))>>
        ELSE <<p, <<>>>>

(***************************************************************************)
(* mk_htm_album: the text of the album.                                    *)
(*                                                                         *)
(* htm_cont is kept as the image count of the header and, for the table,   *)
(* the pieces appended by each loop iteration in order.  A piece is a      *)
(* sequence of tags; the cell of a record is the tag "td" carrying the     *)
(* 1-based position of the record in tuple_imgs_thumbs.  The fixed header, *)
(* the time stamp and the relative paths inside a cell are left out.       *)
(***************************************************************************)
page_img_max == 1000

Tag(name, rec) == [tag |-> name, rec |-> rec]

\* One iteration of `for index in range(total_imgs)`, index 0-based.
LoopPiece(idx, total_imgs, album_raw_max) ==
    LET raw == (idx + 1) % album_raw_max
    IN  (IF raw = 1 THEN <<Tag("tr", 0)>> ELSE <<>>)
        \o <<Tag("td", idx + 1)>>
        \o (IF (raw = album_raw_max) \/ (idx = total_imgs)
            THEN <<Tag("/tr", 0)>> ELSE <<>>)

HtmCont(total_imgs, album_raw_max) ==
    [count |-> total_imgs,
     table |-> [k \in 1..total_imgs |->
                    LoopPiece(k - 1, total_imgs, album_raw_max)]]

NoHtm == [count |-> 0, table |-> <<>>]

(***************************************************************************)
(* mk_htm_album: the renaming loop.                                        *)
(***************************************************************************)
\* One iteration of `while os.path.exists(album_path)`: the next candidate
\* and the next value of root_tail_num.
\* The old tail is never removed.
NextCandidate_nostrip(album_path, root_tail_num) ==
    LET sp == SplitExt(album_path)
    IN  [path |-> sp[1] \o RootTail(root_tail_num) \o sp[2],
         num |-> root_tail_num]

NextCandidate(album_path, root_tail_num) ==
    LET sp        == SplitExt(album_path)
        root_tail == RootTail(root_tail_num)
        strip     == EndsWith(sp[1], root_tail)
        root      == IF strip THEN RemoveSuffix(sp[1], root_tail) ELSE sp[1]
        num       == IF strip THEN root_tail_num + 1 ELSE root_tail_num
    IN  [path |-> root \o RootTail(num) \o sp[2], num |-> num]

\* The loop left out: the requested path is used as it is.
ResolvePath_overwrite(album_path, root_tail_num, fs) == album_path

RECURSIVE ResolvePath(_, _, _)
ResolvePath(album_path, root_tail_num, fs) ==
    IF album_path \notin fs THEN album_path
    ELSE LET c == NextCandidate(album_path, root_tail_num)
         IN  ResolvePath(c.path, c.num, fs)

\* What mk_htm_album returns when the file was written (it falls off the
\* end of the function).
WrittenRet_path(path) == StrVal(path)

WrittenRet(path) == None

\* What mk_htm_album returns when the cap is exceeded or the write failed.
FailedRet(path) == StrVal(path)

LogLine(msg, path) == [msg |-> msg, path |-> path]

(***************************************************************************)
(* Inputs of the album specifications.                                     *)
(***************************************************************************)
AlbumA     == <<"a", ".", "h">>
AlbumA2    == <<"a", "(", "2", ")", ".", "h">>
AlbumNoExt == <<"a">>

Targets   == {AlbumA, AlbumA2, AlbumNoExt}
InitNames == {AlbumA, AlbumA2}
WriteOutcomes == {"written", "open_failed", "write_failed"}

\* The default of the parameter album_raw_max.
album_raw_max_default == 3

AlbumRecCounts  == {0, page_img_max, page_img_max + 1}
LayoutRecCounts == (0..MaxRecs) \cup {page_img_max}

NoCall == [album_path |-> <<>>, total_imgs |-> 0, album_raw_max |-> 1,
           result |-> "none", path |-> <<>>, ret |-> None,
           existed |-> FALSE, htm_cont |-> NoHtm]

\* `if total_imgs > page_img_max`
TooManyImages_ge(total_imgs) == total_imgs >= page_img_max

TooManyImages(total_imgs) == total_imgs > page_img_max

(***************************************************************************)
(* mk_htm_album(tuple_imgs_thumbs, thumb_size, album_path, album_raw_max). *)
(* wr is what the operating system does with open() and write():           *)
(* "open_failed" creates nothing, "write_failed" leaves the created file.  *)
(***************************************************************************)
mk_htm_album(album_path, total_imgs, album_raw_max, wr) ==
    /\ Cardinality(files) < MaxFiles
    /\ IF TooManyImages(total_imgs)
       THEN /\ log_new' = <<LogLine("Too many pictures", <<>>)>>
            /\ last' = [album_path |-> album_path, total_imgs |-> total_imgs,
                        album_raw_max |-> album_raw_max,
                        result |-> "too_many", path |-> <<>>,
                        ret |-> FailedRet(album_path),
                        existed |-> album_path \in files,
                        htm_cont |-> NoHtm]
            /\ UNCHANGED <<files, created>>
       ELSE LET htm_cont == HtmCont(total_imgs, album_raw_max)
                path     == ResolvePath(album_path, 1, files)
                warn     == IF album_path \in files
                            THEN <<LogLine("Existing album file", album_path)>>
                            ELSE <<>>
            IN  /\ files' = IF wr = "open_failed" THEN files
                            ELSE files \cup {path}
                /\ created' = IF wr = "open_failed" THEN created
                              ELSE Append(created, [target |-> album_path,
                                                    path |-> path])
                /\ log_new' = warn \o
                       <<IF wr = "written"
                         THEN LogLine("HTML album has been made", path)
                         ELSE LogLine("Cannot access album file", path)>>
                /\ last' = [album_path |-> album_path,
                            total_imgs |-> total_imgs,
                            album_raw_max |-> album_raw_max,
                            result |-> wr, path |-> path,
                            ret |-> IF wr = "written" THEN WrittenRet(path)
                                    ELSE FailedRet(path),
                            existed |-> album_path \in files,
                            htm_cont |-> htm_cont]
    /\ UNCHANGED <<files0, thumbsVars, cropVars>>

ThumbsIdle ==
    /\ img_paths = <<>> /\ thumb_paths = <<>> /\ index = 0 /\ tpc = "returned"
    /\ tuple_imgs_thumbs = <<<<>>, <<>>>> /\ outcome = <<>> /\ crop_ret = <<>>
    /\ thumb_disk = <<>>

CropIdle ==
    /\ cpc = "done" /\ img_w = 1 /\ img_h = 1 /\ size = <<1, 1>>
    /\ crop_tuple = <<0, 0, 1, 1>>

MainIdle ==
    /\ mpc = "done" /\ dir_state = [kind |-> "ok", names |-> <<>>]
    /\ mkdir_result = "none" /\ log_file = FALSE

AlbumIdle ==
    /\ files = {} /\ files0 = {} /\ created = <<>>
    /\ last = NoCall /\ log_new = <<>>

InitAlbum ==
    /\ files0 \in SUBSET InitNames
    /\ files = files0
    /\ created = <<>>
    /\ last = NoCall
    /\ log_new = <<>>
    /\ ThumbsIdle /\ CropIdle /\ MainIdle

NextAlbum ==
    \E album_path \in Targets, total_imgs \in AlbumRecCounts,
       wr \in WriteOutcomes :
        /\ mk_htm_album(album_path, total_imgs, album_raw_max_default, wr)
        /\ UNCHANGED mainVars

SpecAlbum == InitAlbum /\ [][NextAlbum]_vars

InitLayout ==
    /\ files0 \in SUBSET {AlbumA}
    /\ files = files0
    /\ created = <<>>
    /\ last = NoCall
    /\ log_new = <<>>
    /\ ThumbsIdle /\ CropIdle /\ MainIdle

NextLayout ==
    \E total_imgs \in LayoutRecCounts, album_raw_max \in 1..MaxCols,
       wr \in WriteOutcomes :
        /\ mk_htm_album(AlbumA, total_imgs, album_raw_max, wr)
        /\ UNCHANGED mainVars

SpecLayout == InitLayout /\ [][NextLayout]_vars

(***************************************************************************)
(* crop_thumb and mk_thumbs.                                               *)
(*                                                                         *)
(* env is what the image library and the operating system do for one item: *)
(*   "open_fail"    Image.open raises (caught, lines 221-226);             *)
(*   "crop_raise"   img.crop raises (line 249, outside any try);           *)
(*   "resize_raise" cropped_img.resize raises (line 250, outside any try); *)
(*   "save_fail"    thumb_img.save raises (caught, lines 254-256);         *)
(*   "ok"           every step succeeds and the thumbnail is on disk.      *)
(***************************************************************************)
Envs == {"ok", "open_fail", "crop_raise", "resize_raise", "save_fail"}

\* The empty path can neither be opened nor saved to.
CanHappen(img_path, thumb_path, env) ==
    /\ img_path = <<>> => env = "open_fail"
    /\ thumb_path = <<>> => env # "ok"

\* crop_thumb(img_path, thumb_path, size): whether an exception leaves the
\* function, the value returned otherwise, and whether the file was saved.
crop_thumb(img_path, thumb_path, env) ==
    CASE env = "open_fail" ->
            [raised |-> FALSE, val |-> StrVal(img_path), saved |-> FALSE]
      [] env \in {"crop_raise", "resize_raise"} ->
            [raised |-> TRUE, val |-> None, saved |-> FALSE]
      [] env = "save_fail" ->
            [raised |-> FALSE, val |-> StrVal(img_path), saved |-> FALSE]
      [] env = "ok" ->
            [raised |-> FALSE, val |-> None, saved |-> TRUE]

\* One iteration of `for index in range(len(img_paths))` in mk_thumbs.
mk_thumbs_step(env) ==
    /\ tpc = "loop"
    /\ index < Len(img_paths)
    /\ CanHappen(img_paths[index + 1], thumb_paths[index + 1], env)
    /\ LET img_path   == img_paths[index + 1]
           thumb_path == thumb_paths[index + 1]
           r          == crop_thumb(img_path, thumb_path, env)
       IN  /\ outcome' = Append(outcome, env)
           /\ crop_ret' = Append(crop_ret, [raised |-> r.raised, val |-> r.val])
           /\ thumb_disk' = IF r.saved
                            THEN (thumb_path :> img_path) @@ thumb_disk
                            ELSE thumb_disk
           /\ IF r.raised
              THEN /\ tpc' = "raised"
                   /\ UNCHANGED <<index, tuple_imgs_thumbs>>
              ELSE /\ tpc' = "loop"
                   /\ index' = index + 1
                   /\ tuple_imgs_thumbs' =
                        IF Truthy(r.val) THEN tuple_imgs_thumbs
                        ELSE <<Append(tuple_imgs_thumbs[1], img_path),
                               Append(tuple_imgs_thumbs[2], thumb_path)>>
    /\ UNCHANGED <<img_paths, thumb_paths, albumVars, cropVars>>

\* `return tuple_imgs_thumbs` after the loop.
mk_thumbs_return ==
    /\ tpc = "loop"
    /\ index = Len(img_paths)
    /\ tpc' = "returned"
    /\ UNCHANGED <<img_paths, thumb_paths, index, tuple_imgs_thumbs, outcome,
                   crop_ret, thumb_disk, albumVars, cropVars>>

ImgA   == <<"a", ".", "j">>
ImgB   == <<"b", ".", "p">>
ThumbA == <<"a", "_", "t", ".", "j">>
ThumbB == <<"b", "_", "t", ".", "j">>

ImgNames   == {<<>>, ImgA, ImgB}
ThumbNames == {ThumbA, ThumbB}

SeqsOfLen(S, n) == [1..n -> S]

InitThumbs ==
    /\ \E n \in 0..MaxItems :
          /\ img_paths \in SeqsOfLen(ImgNames, n)
          /\ thumb_paths \in SeqsOfLen(ThumbNames, n)
    /\ index = 0
    /\ tpc = "loop"
    /\ tuple_imgs_thumbs = <<<<>>, <<>>>>
    /\ outcome = <<>>
    /\ crop_ret = <<>>
    /\ thumb_disk = <<>>
    /\ AlbumIdle /\ CropIdle /\ MainIdle

NextThumbs ==
    \/ \E env \in Envs : mk_thumbs_step(env) /\ UNCHANGED mainVars
    \/ mk_thumbs_return /\ UNCHANGED mainVars

SpecThumbs == InitThumbs /\ [][NextThumbs]_vars

(***************************************************************************)
(* Python float arithmetic (IEEE 754 binary64, round to nearest, ties to   *)
(* even), as far as crop_thumb uses it.                                    *)
(*                                                                         *)
(* A magnitude is a fixed-point number of five limbs of LimbBits bits,     *)
(* least significant first: limb 5 is the integer part, limbs 1..4 are 80  *)
(* fraction bits.  A float is a sign and a magnitude with at most 53       *)
(* significant bits.  Every float crop_thumb computes from dimensions      *)
(* below 2^12 is a multiple of 2^-64 and below 2^20, so it is represented  *)
(* exactly, and so is every exact result before it is rounded.             *)
(***************************************************************************)
LimbBits == 20

Limbs == 5

Mantissa == 53

Base == 2^LimbBits

ZeroMag == <<0, 0, 0, 0, 0>>

IntMag(n) == <<0, 0, 0, 0, n>>

\* Propagate carries; the top limb keeps what is left.
CarryMag(t) ==
    LET l1 == t[1]
        l2 == t[2] + (l1 \div Base)
        l3 == t[3] + (l2 \div Base)
        l4 == t[4] + (l3 \div Base)
        l5 == t[5] + (l4 \div Base)
    IN  <<l1 % Base, l2 % Base, l3 % Base, l4 % Base, l5>>

AddMag(x, y) == CarryMag([j \in 1..Limbs |-> x[j] + y[j]])

\* x - y for x >= y.
SubMag(x, y) ==
    LET d1 == x[1] - y[1]
        b1 == IF d1 < 0 THEN 1 ELSE 0
        d2 == x[2] - y[2] - b1
        b2 == IF d2 < 0 THEN 1 ELSE 0
        d3 == x[3] - y[3] - b2
        b3 == IF d3 < 0 THEN 1 ELSE 0
        d4 == x[4] - y[4] - b3
        b4 == IF d4 < 0 THEN 1 ELSE 0
        d5 == x[5] - y[5] - b4
    IN  <<d1 + b1 * Base, d2 + b2 * Base, d3 + b3 * Base, d4 + b4 * Base, d5>>

\* n * x for a small natural n.
MulMag(n, x) == CarryMag([j \in 1..Limbs |-> n * x[j]])

GreaterMag(x, y) ==
    \E j \in 1..Limbs : x[j] > y[j] /\ \A k \in (j + 1)..Limbs : x[k] = y[k]

\* x / 2; the bit shifted out at the bottom is zero for every float here.
HalfMag(x) ==
    [j \in 1..Limbs |->
        (x[j] \div 2) + (IF j < Limbs THEN (x[j + 1] % 2) * (Base \div 2)
                         ELSE 0)]

\* Number of bits of a natural below 2^31.
BitLen(v) == Cardinality({i \in 0..30 : 2^i <= v})

\* Position (1-based, from the least significant bit) of the leading bit.
LeadingBit(x) ==
    IF x = ZeroMag THEN 0
    ELSE LET t == CHOOSE j \in 1..Limbs :
                     x[j] # 0 /\ \A k \in (j + 1)..Limbs : x[k] = 0
         IN  LimbBits * (t - 1) + BitLen(x[t])

\* Bit at position pos (1-based).
BitAt(x, pos) ==
    (x[((pos - 1) \div LimbBits) + 1] \div 2^((pos - 1) % LimbBits)) % 2

\* Round a magnitude to 53 significant bits, to nearest, ties to even;
\* sticky says that the exact value has further nonzero bits below limb 1.
Round53(x, sticky) ==
    LET lead == LeadingBit(x)
        k    == lead - Mantissa          \* number of low bits to drop
        drop(j) == IF k - LimbBits * (j - 1) <= 0 THEN 0
                   ELSE IF k - LimbBits * (j - 1) >= LimbBits THEN LimbBits
                   ELSE k - LimbBits * (j - 1)
        kept == [j \in 1..Limbs |->
                    IF drop(j) = 0 THEN x[j]
                    ELSE IF j < Limbs /\ drop(j) = LimbBits THEN 0
                    ELSE (x[j] \div 2^drop(j)) * 2^drop(j)]
        halfBit == BitAt(x, k)
        below   == sticky \/ \E pos \in 1..(k - 1) : BitAt(x, pos) = 1
        lsb     == BitAt(x, k + 1)
        up      == halfBit = 1 /\ (below \/ lsb = 1)
        ulp     == [j \in 1..Limbs |->
                       IF j = (k \div LimbBits) + 1 THEN 2^(k % LimbBits)
                       ELSE 0]
    IN  IF k <= 0 THEN x
        ELSE IF up THEN AddMag(kept, ulp) ELSE kept

Float(neg, mag) == [neg |-> neg, mag |-> mag]

\* a / b for positive ints (Python's true division is correctly rounded).
FDivInts(a, b) ==
    LET q5 == a \div b
        r5 == a % b
        q4 == (r5 * Base) \div b
        r4 == (r5 * Base) % b
        q3 == (r4 * Base) \div b
        r3 == (r4 * Base) % b
        q2 == (r3 * Base) \div b
        r2 == (r3 * Base) % b
        q1 == (r2 * Base) \div b
        r1 == (r2 * Base) % b
    IN  Float(FALSE, Round53(<<q1, q2, q3, q4, q5>>, r1 # 0))

\* n * x for a positive int n.
FMulInt(n, x) == Float(x.neg, Round53(MulMag(n, x.mag), FALSE))

\* x + y.
FAdd(x, y) ==
    IF x.neg = y.neg THEN Float(x.neg, Round53(AddMag(x.mag, y.mag), FALSE))
    ELSE IF GreaterMag(y.mag, x.mag)
         THEN Float(y.neg, Round53(SubMag(y.mag, x.mag), FALSE))
         ELSE Float(x.neg /\ x.mag # y.mag,
                    Round53(SubMag(x.mag, y.mag), FALSE))

\* n - x for an int n >= 0.
FIntSub(n, x) == FAdd(Float(FALSE, IntMag(n)), Float(~x.neg, x.mag))

\* x / 2.
FHalf(x) == Float(x.neg, HalfMag(x.mag))

FEq(x, y) == x.mag = y.mag /\ (x.neg = y.neg \/ x.mag = ZeroMag)

\* x > y for positive x, y.
FGreater(x, y) == GreaterMag(x.mag, y.mag)

\* int(x): truncation towards zero.
PyInt(x) == IF x.neg THEN 0 - x.mag[Limbs] ELSE x.mag[Limbs]

(***************************************************************************)
(* crop_thumb: the crop box (lines 228-247).                               *)
(***************************************************************************)
\* The two branches exchanged.
CropTuple_swapped(w, h, sz) ==
    LET w_ratio == FDivInts(sz[1], w)
        h_ratio == FDivInts(sz[2], h)
    IN  IF FEq(w_ratio, h_ratio) THEN <<0, 0, w, h>>
        ELSE IF FGreater(h_ratio, w_ratio)
        THEN LET crop_h == FMulInt(w, FDivInts(sz[2], sz[1]))
                 half   == FHalf(FIntSub(h, crop_h))
             IN  <<0, PyInt(half), w, PyInt(FAdd(half, crop_h))>>
        ELSE LET crop_w == FMulInt(h, FDivInts(sz[1], sz[2]))
                 half   == FHalf(FIntSub(w, crop_w))
             IN  <<PyInt(half), 0, PyInt(FAdd(half, crop_w)), h>>

\* The lower bound is the truncated upper bound plus the truncated extent.
CropTuple_sumtrunc(w, h, sz) ==
    LET w_ratio == FDivInts(sz[1], w)
        h_ratio == FDivInts(sz[2], h)
    IN  IF FEq(w_ratio, h_ratio) THEN <<0, 0, w, h>>
        ELSE IF FGreater(w_ratio, h_ratio)
        THEN LET crop_h == FMulInt(w, FDivInts(sz[2], sz[1]))
                 half   == FHalf(FIntSub(h, crop_h))
             IN  <<0, PyInt(half), w, PyInt(half) + PyInt(crop_h)>>
        ELSE LET crop_w == FMulInt(h, FDivInts(sz[1], sz[2]))
                 half   == FHalf(FIntSub(w, crop_w))
             IN  <<PyInt(half), 0, PyInt(half) + PyInt(crop_w), h>>

CropTuple(w, h, sz) ==
    LET w_ratio == FDivInts(sz[1], w)
        h_ratio == FDivInts(sz[2], h)
    IN  IF FEq(w_ratio, h_ratio) THEN <<0, 0, w, h>>
        ELSE IF FGreater(w_ratio, h_ratio)
        THEN LET crop_h   == FMulInt(w, FDivInts(sz[2], sz[1]))
                 half     == FHalf(FIntSub(h, crop_h))
                 crop_l_u == PyInt(half)
                 crop_r_d == PyInt(FAdd(half, crop_h))
             IN  <<0, crop_l_u, w, crop_r_d>>
        ELSE LET crop_w   == FMulInt(h, FDivInts(sz[1], sz[2]))
                 half     == FHalf(FIntSub(w, crop_w))
                 crop_l_u == PyInt(half)
                 crop_r_d == PyInt(FAdd(half, crop_w))
             IN  <<crop_l_u, 0, crop_r_d, h>>

\* Lines 228-247 of crop_thumb on an image that Image.open has opened.
crop_box ==
    /\ cpc = "start"
    /\ crop_tuple' = CropTuple(img_w, img_h, size)
    /\ cpc' = "done"
    /\ UNCHANGED <<img_w, img_h, size, albumVars, thumbsVars>>

\* Dimensions at which float rounding first shows in the crop box.
BigDims == {19, 21, 23}

Dims == (1..MaxDim) \cup BigDims

InitCrop ==
    /\ cpc = "start"
    /\ img_w \in Dims
    /\ img_h \in Dims
    /\ size \in Dims \X Dims
    /\ crop_tuple = <<0, 0, 0, 0>>
    /\ AlbumIdle /\ ThumbsIdle /\ MainIdle

NextCrop == crop_box /\ UNCHANGED mainVars

SpecCrop == InitCrop /\ [][NextCrop]_vars

(***************************************************************************)
(* The main program (lines 414-435) and the functions it calls before      *)
(* mk_thumbs.                                                              *)
(***************************************************************************)
img_exts == {<<".", "j", "p", "g">>,
             <<".", "j", "p", "e", "g">>,
             <<".", "p", "n", "g">>,
             <<".", "b", "m", "p">>,
             <<".", "g", "i", "f">>,
             <<".", "t", "i", "f">>,
             <<".", "t", "i", "f", "f">>}

img_dir == <<".", "\\", "p", "h", "o", "t", "o", "s">>

thumb_tail == <<"_", "t", "h", "n">>

thumb_size == <<128, 128>>

thumb_ext == <<".", "j", "p", "g">>

main_album_raw_max == 4

UpperCase == <<"A", "B", "C", "D", "E", "F", "G", "H", "I", "J", "K", "L", "M",
               "N", "O", "P", "Q", "R", "S", "T", "U", "V", "W", "X", "Y", "Z">>

LowerCase == <<"a", "b", "c", "d", "e", "f", "g", "h", "i", "j", "k", "l", "m",
               "n", "o", "p", "q", "r", "s", "t", "u", "v", "w", "x", "y", "z">>

\* str.lower()
PyLower(s) ==
    [k \in 1..Len(s) |->
        IF \E u \in 1..26 : UpperCase[u] = s[k]
        THEN LowerCase[CHOOSE u \in 1..26 : UpperCase[u] = s[k]]
        ELSE s[k]]

\* str.endswith(tuple)
EndsWithAny(s, sufs) == \E suf \in sufs : EndsWith(s, suf)

\* os.path.join(a, b) (posixpath)
PathJoin(a, b) ==
    IF b # <<>> /\ b[1] = "/" THEN b
    ELSE IF a = <<>> \/ a[Len(a)] = "/" THEN a \o b
    ELSE a \o <<"/">> \o b

\* os.path.basename(p) (posixpath)
Basename(p) == SubSeq(p, RFind(p, "/") + 1, Len(p))

thumb_dir == PathJoin(img_dir, <<"t", "h", "u", "m", "b", "s">>)

main_album_path == PathJoin(img_dir, 
    <<"h", "t", "m", "_", "a", "l", "b", "u", "m", ".", "h", "t", "m">>)

\* The list comprehension of select_by_exts: the paths of the matching
\* entries of the listing, in the order of the listing.
RECURSIVE SelectPaths(_, _, _)
SelectPaths(dir, names, f_exts) ==
    IF names = <<>> THEN <<>>
    ELSE LET front == SelectPaths(dir, SubSeq(names, 1, Len(names) - 1),
                                  f_exts)
             file  == names[Len(names)]
         IN  IF EndsWithAny(PyLower(file), f_exts)
             THEN Append(front, PathJoin(dir, file))
             ELSE front

\* An empty selection is returned instead of ending the program.
select_by_exts_noabort(dir, ds, f_exts) ==
    IF ds.kind = "FileNotFoundError"
    THEN [next |-> "exit_listdir", f_paths |-> <<>>]
    ELSE IF ds.kind # "ok"
    THEN [next |-> "crash_listdir", f_paths |-> <<>>]
    ELSE [next |-> "thumb_paths",
          f_paths |-> SelectPaths(dir, ds.names, f_exts)]

\* select_by_exts(dir, f_exts) on a directory in state ds: the statement
\* the program goes on with, and the value returned.  sys.exit(0) ends the
\* program; an exception other than FileNotFoundError is not caught.
select_by_exts(dir, ds, f_exts) ==
    IF ds.kind = "FileNotFoundError"
    THEN [next |-> "exit_listdir", f_paths |-> <<>>]
    ELSE IF ds.kind # "ok"
    THEN [next |-> "crash_listdir", f_paths |-> <<>>]
    ELSE LET f_paths == SelectPaths(dir, ds.names, f_exts)
         IN  IF f_paths # <<>>
             THEN [next |-> "thumb_paths", f_paths |-> f_paths]
             ELSE [next |-> "exit_nofiles", f_paths |-> <<>>]

\* mk_thumb_paths(img_paths, thumb_dir, thumb_ext, thumb_tail)
mk_thumb_paths(paths, t_dir, t_ext, t_tail) ==
    [k \in 1..Len(paths) |->
        PathJoin(t_dir, SplitExt(Basename(paths[k]))[1] \o t_tail \o t_ext)]

\* img_paths = select_by_exts(img_dir, img_exts)
main_select ==
    /\ mpc = "select"
    /\ LET r == select_by_exts(img_dir, dir_state, img_exts)
       IN  /\ mpc' = r.next
           /\ img_paths' = r.f_paths
    /\ UNCHANGED <<thumb_paths, index, tpc, tuple_imgs_thumbs, outcome,
                   crop_ret, thumb_disk, dir_state, mkdir_result, log_file,
                   albumVars, cropVars>>

\* thumb_paths = mk_thumb_paths(img_paths, thumb_dir, thumb_ext, thumb_tail)
main_thumb_paths ==
    /\ mpc = "thumb_paths"
    /\ thumb_paths' = mk_thumb_paths(img_paths, thumb_dir, thumb_ext,
                                     thumb_tail)
    /\ mpc' = "thumb_dir"
    /\ UNCHANGED <<img_paths, index, tpc, tuple_imgs_thumbs, outcome,
                   crop_ret, thumb_disk, dir_state, mkdir_result, log_file,
                   albumVars, cropVars>>

\* mk_thumb_dir(img_dir, thumb_dir); made says whether os.makedirs succeeds.
main_thumb_dir(made) ==
    /\ mpc = "thumb_dir"
    /\ IF img_dir = thumb_dir
       THEN mkdir_result' = "same_dir" /\ mpc' = "mk_thumbs"
       ELSE IF made
       THEN mkdir_result' = "made" /\ mpc' = "mk_thumbs"
       ELSE mkdir_result' = "failed" /\ mpc' = "exit_mkdir"
    /\ UNCHANGED <<thumbsVars, dir_state, log_file, albumVars, cropVars>>

\* The call of mk_thumbs: its result lists are created (lines 279-282).
main_mk_thumbs_call ==
    /\ mpc = "mk_thumbs"
    /\ tpc = "idle"
    /\ tpc' = "loop"
    /\ UNCHANGED <<img_paths, thumb_paths, index, tuple_imgs_thumbs, outcome,
                   crop_ret, thumb_disk, mainVars, albumVars, cropVars>>

\* One iteration of the loop of mk_thumbs; an exception that leaves
\* crop_thumb leaves mk_thumbs and ends the program.
main_mk_thumbs_step(env) ==
    /\ mpc = "mk_thumbs"
    /\ mk_thumbs_step(env)
    /\ mpc' = IF env \in {"crop_raise", "resize_raise"} THEN "crash_thumbs"
              ELSE mpc
    /\ UNCHANGED <<dir_state, mkdir_result, log_file>>

\* tuple_imgs_thumbs = mk_thumbs(...) returns.
main_mk_thumbs_return ==
    /\ mpc = "mk_thumbs"
    /\ mk_thumbs_return
    /\ mpc' = "album"
    /\ UNCHANGED <<dir_state, mkdir_result, log_file>>

\* mk_htm_album(tuple_imgs_thumbs, thumb_size, album_path, album_raw_max)
main_mk_htm_album(wr) ==
    /\ mpc = "album"
    /\ mk_htm_album(main_album_path, Len(tuple_imgs_thumbs[1]),
                    main_album_raw_max, wr)
    /\ mpc' = "write_log"
    /\ UNCHANGED <<dir_state, mkdir_result, log_file>>

\* write_log(thumb_dir); written says whether the log file could be opened.
main_write_log(written) ==
    /\ mpc = "write_log"
    /\ log_file' = written
    /\ mpc' = "done"
    /\ UNCHANGED <<thumbsVars, dir_state, mkdir_result, albumVars, cropVars>>

DirA   == <<"a", ".", "j", "p", "g">>
DirAp  == <<"a", ".", "p", "n", "g">>
DirB   == <<"B", ".", "J", "P", "G">>
DirTxt == <<"n", ".", "t", "x", "t">>

DirNames == {DirA, DirAp, DirB, DirTxt}

\* The sequences os.listdir can return: distinct names in any order.
Listings ==
    UNION {{l \in SeqsOfLen(DirNames, n) :
               \A i, j \in 1..n : i # j => l[i] # l[j]} : n \in 0..MaxItems}

InitMain ==
    /\ mpc = "select"
    /\ \/ /\ dir_state \in {[kind |-> k, names |-> <<>>] :
                               k \in {"FileNotFoundError", "PermissionError"}}
       \/ /\ dir_state \in {[kind |-> "ok", names |-> l] : l \in Listings}
    /\ mkdir_result = "none"
    /\ log_file = FALSE
    /\ img_paths = <<>> /\ thumb_paths = <<>> /\ index = 0 /\ tpc = "idle"
    /\ tuple_imgs_thumbs = <<<<>>, <<>>>> /\ outcome = <<>> /\ crop_ret = <<>>
    /\ thumb_disk = <<>>
    /\ files0 \in SUBSET {main_album_path}
    /\ files = files0
    /\ created = <<>>
    /\ last = NoCall
    /\ log_new = <<>>
    /\ CropIdle

NextMain ==
    \/ main_select
    \/ main_thumb_paths
    \/ \E made \in BOOLEAN : main_thumb_dir(made)
    \/ main_mk_thumbs_call
    \/ \E env \in Envs : main_mk_thumbs_step(env)
    \/ main_mk_thumbs_return
    \/ \E wr \in WriteOutcomes : main_mk_htm_album(wr)
    \/ \E written \in BOOLEAN : main_write_log(written)

SpecMain == InitMain /\ [][NextMain]_vars

(***************************************************************************)
(* Vocabulary of the properties of mk_htm_album.                           *)
(***************************************************************************)
Stem(p) == SplitExt(p)[1]

Ext(p) == SplitExt(p)[2]

\* Positions of a "(" that starts a tail "(digits)" reaching the end of s.
TailStarts(s) ==
    {j \in 1..Len(s) :
        /\ s[j] = "("
        /\ s[Len(s)] = ")"
        /\ j + 1 <= Len(s) - 1
        /\ \A k \in (j + 1)..(Len(s) - 1) : s[k] \in Digits}

HasNumSuffix(s) == TailStarts(s) # {}

StripNumSuffix(s) ==
    IF HasNumSuffix(s)
    THEN SubSeq(s, 1, (CHOOSE j \in TailStarts(s) : TRUE) - 1)
    ELSE s

\* p itself for k = 0, else the stem of p, "(k)" and the extension of p.
Numbered(p, k) == IF k = 0 THEN p ELSE Stem(p) \o RootTail(k) \o Ext(p)

\* f is p or p with one numeric tail on its stem.
InFamily(f, p) ==
    \/ f = p
    \/ /\ Ext(f) = Ext(p)
       /\ HasNumSuffix(Stem(f))
       /\ StripNumSuffix(Stem(f)) = Stem(p)

Attempted == last.result \in WriteOutcomes

Openings(table) ==
    {i \in 1..Len(table) : \E k \in 1..Len(table[i]) : table[i][k].tag = "tr"}

Closings(table) ==
    {i \in 1..Len(table) : \E k \in 1..Len(table[i]) : table[i][k].tag = "/tr"}

(***************************************************************************)
(* C1.  Every successful call of mk_htm_album writes to a path at which no *)
(* file existed immediately before the call, and the files existing after  *)
(* the call are those existing before it plus exactly that path.           *)
(***************************************************************************)
C1_NoOverwrite ==
    [][last'.result = "written" =>
          /\ last'.path \notin files
          /\ files' = files \cup {last'.path}]_vars

\* A successful call whose requested path existed and had to be renamed.
C1_Witness ==
    /\ last.result = "written"
    /\ last.existed
    /\ last.path # last.album_path
    /\ last.path \in files
    /\ last.total_imgs = 1000

(***************************************************************************)
(* C2.  When every file created so far comes from a call with one and the  *)
(* same target path p whose stem has no numeric suffix, and no file of the *)
(* family of p existed at the start, the files were created in the order   *)
(* p, stem(1)+ext, stem(2)+ext, ...: all distinct, none with two suffixes. *)
(***************************************************************************)
C2_SequenceOfNames ==
    \A p \in Targets :
        ( /\ ~HasNumSuffix(Stem(p))
          /\ \A f \in files0 : ~InFamily(f, p)
          /\ \A i \in 1..Len(created) : created[i].target = p )
        => /\ \A i \in 1..Len(created) : created[i].path = Numbered(p, i - 1)
           /\ \A i \in 1..Len(created) :
                  ~HasNumSuffix(StripNumSuffix(Stem(created[i].path)))
           /\ \A i, j \in 1..Len(created) :
                  i # j => created[i].path # created[j].path

\* Three successful calls in a row with the target a.h on an empty directory.
C2_Witness ==
    /\ files0 = {}
    /\ Len(created) = 3
    /\ \A i \in 1..3 : created[i].target = AlbumA
    /\ created[3].path = <<"a", "(", "2", ")", ".", "h">>
    /\ last.result = "written"

(***************************************************************************)
(* C3.  When the requested path exists and its stem ends with a numeric    *)
(* suffix "(n)", the resolved path has the bare stem followed by exactly   *)
(* one "(m)" suffix.                                                       *)
(***************************************************************************)
C3_SuffixStripped ==
    ( /\ Attempted
      /\ last.existed
      /\ HasNumSuffix(Stem(last.album_path)) )
    => /\ HasNumSuffix(Stem(last.path))
       /\ StripNumSuffix(Stem(last.path))
              = StripNumSuffix(Stem(last.album_path))

(***************************************************************************)
(* C4.  As claimed: on success mk_htm_album returns the path it wrote, and *)
(* that result differs from the results of the failing calls.              *)
(***************************************************************************)
C4_ReturnsWrittenPath ==
    /\ last.result = "written" => last.ret = StrVal(last.path)
    /\ last.result \in {"too_many", "open_failed", "write_failed"}
          => last.ret.isNone

(***************************************************************************)
(* C4, amended.  On success mk_htm_album returns None; when the cap is     *)
(* exceeded it returns the requested path and when the write fails the     *)
(* resolved path, so success (None) is told apart from failure (a str).    *)
(***************************************************************************)
C4_ReturnsNoneOnSuccess ==
    /\ last.result = "written" => last.ret = None
    /\ last.result = "too_many" => last.ret = StrVal(last.album_path)
    /\ last.result \in {"open_failed", "write_failed"}
          => last.ret = StrVal(last.path)
    /\ last.result \in {"too_many", "open_failed", "write_failed"}
          => ~last.ret.isNone

\* A successful call that was renamed: the written path is not the target.
C4_Witness ==
    /\ last.result = "written"
    /\ last.existed
    /\ last.path # last.album_path
    /\ last.ret = None

(***************************************************************************)
(* C5.  A call with more than 1000 records fails, leaves the file system   *)
(* as it was and emits no collision advisory; a call with at most 1000     *)
(* records (1000 included) is not refused and goes on to the write.        *)
(***************************************************************************)
C5_CapRefusesWithoutWriting ==
    [][/\ last'.total_imgs > 1000 =>
            /\ last'.result = "too_many"
            /\ ~last'.ret.isNone
            /\ files' = files
            /\ created' = created
            /\ \A k \in 1..Len(log_new') :
                   log_new'[k].msg # "Existing album file"
       /\ last'.total_imgs <= 1000 =>
            /\ last'.result \in WriteOutcomes
            /\ last'.htm_cont.count = last'.total_imgs
            /\ Len(last'.htm_cont.table) = last'.total_imgs]_vars

\* 1001 records on a target that exists: refused, nothing renamed or written.
C5_Witness ==
    /\ last.total_imgs = 1001
    /\ last.result = "too_many"
    /\ last.existed
    /\ files = files0

(***************************************************************************)
(* C6.  For every columns >= 1 and 0 <= n <= 1000 the n cells are emitted  *)
(* in input order, a row opening comes immediately before the cells at     *)
(* positions 1, columns+1, 2*columns+1, ... and nowhere else, and there    *)
(* are exactly ceil(n/columns) row openings.                               *)
(***************************************************************************)
C6_RowOpenings ==
    Attempted =>
        LET table == last.htm_cont.table
            n     == last.total_imgs
            c     == last.album_raw_max
        IN  /\ Len(table) = n
            /\ \A i \in 1..n :
                 /\ Cardinality({k \in 1..Len(table[i]) :
                                    table[i][k].tag = "td"}) = 1
                 /\ \E k \in 1..Len(table[i]) : table[i][k] = Tag("td", i)
                 /\ ((i - 1) % c = 0) <=> (table[i][1].tag = "tr")
                 /\ \A k \in 2..Len(table[i]) : table[i][k].tag # "tr"
            /\ Cardinality(Openings(table)) = (n + c - 1) \div c

(***************************************************************************)
(* C7.  A row close is emitted after each cell that completes a row of     *)
(* `columns` cells and after the final cell, so for n >= 1 the number of   *)
(* row closes equals the number of row openings.                           *)
(***************************************************************************)
C7_RowsClosed ==
    (Attempted /\ last.total_imgs >= 1) =>
        LET table == last.htm_cont.table
            n     == last.total_imgs
            c     == last.album_raw_max
        IN  /\ \A i \in 1..n :
                 (i % c = 0 \/ i = n)
                     <=> (table[i][Len(table[i])].tag = "/tr")
            /\ Cardinality(Closings(table)) = Cardinality(Openings(table))

(***************************************************************************)
(* Vocabulary of the properties of mk_thumbs.                              *)
(***************************************************************************)
\* The entries of seq at the positions in keep, in increasing position.
RECURSIVE Pick(_, _)
Pick(seq, keep) ==
    IF seq = <<>> THEN <<>>
    ELSE LET front == Pick(SubSeq(seq, 1, Len(seq) - 1), keep)
         IN  IF Len(seq) \in keep THEN Append(front, seq[Len(seq)])
             ELSE front

\* The items for which crop_thumb failed at no step.
Produced == {i \in 1..Len(outcome) : outcome[i] = "ok"}

(***************************************************************************)
(* C8.  mk_thumbs returns two lists of equal length holding, in the        *)
(* original order, img_paths[i] and thumb_paths[i] for exactly the indices *)
(* i at which crop_thumb failed at no step, whatever the path strings are. *)
(***************************************************************************)
C8_ExactlyTheSuccesses ==
    tpc = "returned" =>
        /\ Len(tuple_imgs_thumbs[1]) = Len(tuple_imgs_thumbs[2])
        /\ tuple_imgs_thumbs[1] = Pick(img_paths, Produced)
        /\ tuple_imgs_thumbs[2] = Pick(thumb_paths, Produced)

(***************************************************************************)
(* C9.  A failure at any step of crop_thumb never halts the batch:         *)
(* crop_thumb returns the failure token img_path for the item, no          *)
(* exception ends mk_thumbs, and mk_thumbs returns after invoking          *)
(* crop_thumb once for every index.                                        *)
(***************************************************************************)
C9_FailureNeverHaltsBatch ==
    /\ tpc # "raised"
    /\ \A i \in 1..Len(outcome) :
          outcome[i] # "ok" =>
              crop_ret[i] = [raised |-> FALSE, val |-> StrVal(img_paths[i])]
    /\ tpc = "returned" => Len(outcome) = Len(img_paths)

(***************************************************************************)
(* Vocabulary of the properties of the crop box.                           *)
(***************************************************************************)
AbsDiff(a, b) == IF a >= b THEN a - b ELSE b - a

Contained ==
    /\ 0 <= crop_tuple[1] /\ crop_tuple[1] <= crop_tuple[3]
    /\ crop_tuple[3] <= img_w
    /\ 0 <= crop_tuple[2] /\ crop_tuple[2] <= crop_tuple[4]
    /\ crop_tuple[4] <= img_h

\* The box spans the full width of the image.
FullWidth == crop_tuple[1] = 0 /\ crop_tuple[3] = img_w

\* The box spans the full height of the image.
FullHeight == crop_tuple[2] = 0 /\ crop_tuple[4] = img_h

\* |height - img_w*target_h/target_w|, in units of 1/target_w pixels.
HeightError ==
    AbsDiff((crop_tuple[4] - crop_tuple[2]) * size[1], img_w * size[2])

\* |width - img_h*target_w/target_h|, in units of 1/target_h pixels.
WidthError ==
    AbsDiff((crop_tuple[3] - crop_tuple[1]) * size[2], img_h * size[1])

(***************************************************************************)
(* C10.  As claimed: the crop box lies inside the image, one of its        *)
(* dimensions spans the full image and the other differs by less than 1    *)
(* pixel from the exact value that gives the target aspect ratio.          *)
(***************************************************************************)
C10_WithinLessThanOnePixel ==
    cpc = "done" =>
        /\ Contained
        /\ \/ FullWidth /\ HeightError < size[1]
           \/ FullHeight /\ WidthError < size[2]

(***************************************************************************)
(* C10, amended.  The crop box lies inside the image, one of its           *)
(* dimensions spans the full image and the other differs by at most 1      *)
(* pixel from the exact value that gives the target aspect ratio.          *)
(***************************************************************************)
C10_WithinOnePixel ==
    cpc = "done" =>
        /\ Contained
        /\ \/ FullWidth /\ HeightError <= size[1]
           \/ FullHeight /\ WidthError <= size[2]

\* A 19x23 image cropped for a 19x21 thumbnail: the exact height is 21, the
\* float 19*(21/19) is just above 21 and the box comes out 22 pixels high.
C10_Witness ==
    /\ cpc = "done"
    /\ img_w = 19 /\ img_h = 23 /\ size = <<19, 21>>
    /\ crop_tuple = <<0, 0, 19, 22>>
    /\ HeightError = size[1]

(***************************************************************************)
(* Vocabulary of the properties of the main program.                       *)
(***************************************************************************)
Aborted ==
    mpc \in {"exit_listdir", "crash_listdir", "exit_nofiles", "exit_mkdir"}

NoMatchingFiles ==
    /\ dir_state.kind = "ok"
    /\ \A k \in 1..Len(dir_state.names) :
          ~EndsWithAny(PyLower(dir_state.names[k]), img_exts)

\* Neither mk_thumbs nor mk_htm_album was invoked; no file was written.
NothingRun ==
    /\ tpc = "idle" /\ index = 0 /\ outcome = <<>> /\ crop_ret = <<>>
    /\ tuple_imgs_thumbs = <<<<>>, <<>>>>
    /\ thumb_disk = <<>>
    /\ last = NoCall /\ created = <<>> /\ files = files0
    /\ main_album_path \in files <=> main_album_path \in files0

(***************************************************************************)
(* C11.  When the source directory cannot be listed, no file matches the   *)
(* extensions, or the thumbnail directory cannot be created, the main run  *)
(* ends at that step: no step follows, mk_thumbs and mk_htm_album are      *)
(* never invoked and no thumbnail or album file is written.                *)
(***************************************************************************)
C11_FatalPreconditions ==
    [][/\ ~Aborted
       /\ dir_state'.kind # "ok" => mpc' \in {"exit_listdir", "crash_listdir"}
       /\ NoMatchingFiles' => mpc' = "exit_nofiles"
       /\ mkdir_result' = "failed" => mpc' = "exit_mkdir"
       /\ Aborted' => NothingRun']_vars

\* A directory that holds only n.txt: the run has ended in select_by_exts.
C11_Witness ==
    /\ mpc = "exit_nofiles"
    /\ dir_state = [kind |-> "ok", names |-> <<DirTxt>>]
    /\ NothingRun

(***************************************************************************)
(* Vocabulary of the rules for the crop box.                               *)
(***************************************************************************)
\* target_w/img_w > target_h/img_h, decided on the integers.
Taller == size[1] * img_h > size[2] * img_w

\* target_w/img_w < target_h/img_h, decided on the integers.
Wider == size[1] * img_h < size[2] * img_w

\* The float img_w * (target_h / target_w).
RuleCropH == FMulInt(img_w, FDivInts(size[2], size[1]))

\* The float img_h * (target_w / target_h).
RuleCropW == FMulInt(img_h, FDivInts(size[1], size[2]))

\* The floats (img_h - crop_h)/2 and (img_w - crop_w)/2.
RuleTopF == FHalf(FIntSub(img_h, RuleCropH))

RuleLeftF == FHalf(FIntSub(img_w, RuleCropW))

(***************************************************************************)
(* C12.  As claimed: for a relatively taller source the box is left = 0,   *)
(* right = img_w, top = trunc((img_h - crop_h)/2) and                      *)
(* bottom = top + trunc(crop_h); for a wider source the same on the        *)
(* horizontal axis.                                                        *)
(***************************************************************************)
C12_BottomIsTopPlusTruncatedExtent ==
    cpc = "done" =>
        /\ Taller => crop_tuple = <<0, PyInt(RuleTopF), img_w,
                                    PyInt(RuleTopF) + PyInt(RuleCropH)>>
        /\ Wider => crop_tuple = <<PyInt(RuleLeftF), 0,
                                   PyInt(RuleLeftF) + PyInt(RuleCropW), img_h>>

(***************************************************************************)
(* C12, amended.  For a relatively taller source the box is left = 0,      *)
(* right = img_w, top = trunc((img_h - crop_h)/2) and                      *)
(* bottom = trunc((img_h - crop_h)/2 + crop_h): top and bottom are each    *)
(* truncated from the untruncated float, crop_h itself is never truncated; *)
(* for a wider source the same on the horizontal axis.                     *)
(***************************************************************************)
C12_BoundsTruncatedSeparately ==
    cpc = "done" =>
        /\ Taller => crop_tuple = <<0, PyInt(RuleTopF), img_w,
                                    PyInt(FAdd(RuleTopF, RuleCropH))>>
        /\ Wider => crop_tuple = <<PyInt(RuleLeftF), 0,
                                   PyInt(FAdd(RuleLeftF, RuleCropW)), img_h>>

\* A 1x2 image cropped for a 2x1 thumbnail: crop_h = 0.5, top = int(0.75) = 0
\* and bottom = int(1.25) = 1, where top + trunc(crop_h) would be 0.
C12_Witness ==
    /\ cpc = "done"
    /\ img_w = 1 /\ img_h = 2 /\ size = <<2, 1>>
    /\ Taller
    /\ crop_tuple = <<0, 0, 1, 1>>
    /\ PyInt(RuleTopF) + PyInt(RuleCropH) = 0

(***************************************************************************)
(* C13.  In a run over pairwise distinct source files of one directory no  *)
(* item's save writes to the thumbnail path of another item: when the      *)
(* batch finishes, the file at each returned record's thumbnail path is    *)
(* the thumbnail produced from that record's own source.                   *)
(***************************************************************************)
C13_ItemIsolation ==
    (mpc \in {"mk_thumbs", "album", "write_log", "done"} /\ tpc = "returned") =>
        \A k \in 1..Len(tuple_imgs_thumbs[1]) :
            /\ tuple_imgs_thumbs[2][k] \in DOMAIN thumb_disk
            /\ thumb_disk[tuple_imgs_thumbs[2][k]] = tuple_imgs_thumbs[1][k]

(***************************************************************************)
(* C14.  The crop box computed by crop_thumb is never empty:               *)
(* right - left >= 1 and bottom - top >= 1.                                *)
(***************************************************************************)
C14_CropBoxNonEmpty ==
    cpc = "done" =>
        /\ crop_tuple[3] - crop_tuple[1] >= 1
        /\ crop_tuple[4] - crop_tuple[2] >= 1

====
